---- MODULE Spec2Model ----
(***************************************************************************)
(* Model of the insight-extraction functions of                            *)
(* src/discussion_agents/cog/functional/expel.py:                          *)
(*   categorize_experiences, get_folds, parse_insights,                     *)
(*   retrieve_insight_index and remove_err_operations.                     *)
(*                                                                         *)
(* Python lists are sequences (1-based here, 0-based in the source: the    *)
(* element at Python position i is element i+1 of the sequence).  A text   *)
(* is a sequence of characters; an operation string such as "EDIT 2" is    *)
(* the sequence of its space-separated tokens, <<"EDIT", 2>>.  The         *)
(* critique text given to parse_insights is a sequence of lexemes: a       *)
(* keyword, a lower-case word "w", the digit "1", " ", ":", "." and the    *)
(* newline; an operation it emits keeps its index as the digit string      *)
(* written, <<"EDIT", <<"1">>>>, until line 434 converts it with int().    *)
(***************************************************************************)
EXTENDS Integers, Sequences, FiniteSets, TLC

\* ------------------------------------------------------------------ bounds
MaxExperiences == 3    \* experiences given to categorize_experiences
MaxTrials == 2         \* trials of one trajectory
MaxInstances == 3      \* indices in the categories given to get_folds
MaxFolds == 2          \* largest n_folds
MaxSeed == 1           \* seeds are 0..MaxSeed
MaxCalls == 3          \* get_folds calls in one behaviour
RngMod == 4            \* states of the pseudo-random generator
MaxInsights == 2       \* insights in the list given to remove_err_operations
MaxOps == 2            \* operations given to remove_err_operations
MaxIdx == 1            \* largest index written in an operation
MaxLines == 2          \* lines of the critique text given to parse_insights

VARIABLES
    \* categorize_experiences
    experiences,            \* the argument: [idxs, trajectories]
    count_dict,             \* the local dictionary compare/success/fail
    cat_pc,                 \* "start", "returned", "IndexError", "ValueError"
    \* get_folds
    categories,             \* the argument: [compare, success, fail]
    n_instances,            \* the argument
    n_folds,                \* the argument
    rng,                    \* state of the module-level generator `random`
    call,                   \* per caller: position and locals of its get_folds call
    returned,               \* the calls that returned, in order: [seed, folds]
    ncalls,                 \* calls started so far
    \* remove_err_operations and the insight store
    insights,               \* the argument: list of {"insight": text}
    operations,             \* the argument: list of (operation, text)
    corrected_operations,   \* the result
    corrected_again,        \* the result of reconciling the result once more
    rec_pc,                 \* "start", "returned"
    store,                  \* the insight list the emitted operations are applied to
    applied,                \* how many emitted operations were applied
    store_pc,               \* "ok", "IndexError"
    \* parse_insights
    llm_text,               \* the argument: the critique text
    res,                    \* the result: list of (operation, text)
    parse_pc                \* "start", "returned"

catVars == <<experiences, count_dict, cat_pc>>
foldVars == <<categories, n_instances, n_folds, rng, call, returned, ncalls>>
recVars == <<insights, operations, corrected_operations, corrected_again, rec_pc,
             store, applied, store_pc>>
parseVars == <<llm_text, res, parse_pc>>
vars == <<catVars, foldVars, recVars, parseVars>>

\* ----------------------------------------------------------------- helpers
Range(s) == {s[k] : k \in 1..Len(s)}

SeqsUpTo(S, n) == UNION {[1..m -> S] : m \in 0..n}

\* number of positions of s holding x
Count(s, x) == Cardinality({k \in 1..Len(s) : s[k] = x})

\* ------------------------------------------------- categorize_experiences
EmptyCountDict == [compare |-> <<>>, success |-> <<>>, fail |-> <<>>]

\* a trial is the tuple (is_correct, answer, output)
Trial == BOOLEAN \X {"answer"} \X {"output"}

TrialsAreCorrect(trajectory) ==
    [k \in 1..Len(trajectory) |-> trajectory[k][1]]

\* Python's all()
All(bs) == \A k \in 1..Len(bs) : bs[k]

\* the if/elif chain deciding one trajectory; trials_are_correct[-1] of an
\* empty list raises IndexError before the later branches are tried
CategoryFirstTrial(trials_are_correct) ==
    IF All(trials_are_correct) /\ Len(trials_are_correct) = 1 THEN "success"
    ELSE IF Len(trials_are_correct) = 0 THEN "IndexError"
    ELSE IF trials_are_correct[1] THEN "compare"
    ELSE IF ~All(trials_are_correct) THEN "fail"
    ELSE "ValueError"

Category(trials_are_correct) ==
    IF All(trials_are_correct) /\ Len(trials_are_correct) = 1 THEN "success"
    ELSE IF Len(trials_are_correct) = 0 THEN "IndexError"
    ELSE IF trials_are_correct[Len(trials_are_correct)] THEN "compare"
    ELSE IF ~All(trials_are_correct) THEN "fail"
    ELSE "ValueError"

CategoryErrors == {"IndexError", "ValueError"}

\* one iteration of the loop over experiences["idxs"]: the append it makes
CategorizeOneNoElif(cd, idx, trials_are_correct) ==
    LET c == Category(trials_are_correct)
        cd1 == IF c \in CategoryErrors THEN cd
               ELSE [cd EXCEPT ![c] = Append(@, idx)]
    IN  IF c = "success" THEN [cd1 EXCEPT !.compare = Append(@, idx)] ELSE cd1

CategorizeOne(cd, idx, trials_are_correct) ==
    LET c == Category(trials_are_correct)
    IN  IF c \in CategoryErrors THEN cd
        ELSE [cd EXCEPT ![c] = Append(@, idx)]

\* the loop from position k of experiences["idxs"] on; a raise ends it
RECURSIVE CategorizeFrom(_, _, _)
CategorizeFrom(exps, k, cd) ==
    IF k > Len(exps.idxs) THEN [pc |-> "returned", count_dict |-> cd]
    ELSE LET idx == exps.idxs[k]
             trials_are_correct == TrialsAreCorrect(exps.trajectories[idx + 1])
             c == Category(trials_are_correct)
         IN  IF c \in CategoryErrors THEN [pc |-> c, count_dict |-> cd]
             ELSE CategorizeFrom(exps, k + 1, CategorizeOne(cd, idx, trials_are_correct))

\* gather_experience: idxs are the positions 0..n-1 of the trajectories
GatherExperience(trajectories) ==
    [idxs |-> [k \in 1..Len(trajectories) |-> k - 1],
     trajectories |-> trajectories]

\* idle values of the variables of the other functions
FoldIdle ==
    /\ categories = EmptyCountDict
    /\ n_instances = 0
    /\ n_folds = 1
    /\ rng = 0
    /\ call = <<>>
    /\ returned = <<>>
    /\ ncalls = 0

RecIdle ==
    /\ insights = <<>>
    /\ operations = <<>>
    /\ corrected_operations = <<>>
    /\ corrected_again = <<>>
    /\ rec_pc = "start"
    /\ store = <<>>
    /\ applied = 0
    /\ store_pc = "ok"

ParseIdle ==
    /\ llm_text = <<>>
    /\ res = <<>>
    /\ parse_pc = "start"

CatIdle ==
    /\ experiences = GatherExperience(<<>>)
    /\ count_dict = EmptyCountDict
    /\ cat_pc = "start"

InitCategorize ==
    /\ \E trajectories \in SeqsUpTo(SeqsUpTo(Trial, MaxTrials), MaxExperiences) :
           experiences = GatherExperience(trajectories)
    /\ count_dict = EmptyCountDict
    /\ cat_pc = "start"
    /\ FoldIdle
    /\ RecIdle
    /\ ParseIdle

CategorizeExperiences ==
    /\ cat_pc = "start"
    /\ LET r == CategorizeFrom(experiences, 1, EmptyCountDict)
       IN  /\ cat_pc' = r.pc
           /\ count_dict' = r.count_dict
    /\ UNCHANGED <<experiences, foldVars, recVars, parseVars>>

NextCategorize == CategorizeExperiences

SpecCategorize == InitCategorize /\ [][NextCategorize]_vars

\* ------------------------------------------- claims: categorize_experiences
TrialsOf(idx) == TrialsAreCorrect(experiences.trajectories[idx + 1])

Idxs == Range(experiences.idxs)

NoTrialCorrect(bs) == \A k \in 1..Len(bs) : ~bs[k]

SingleCorrectTrial(bs) == Len(bs) = 1 /\ bs[1]

RecoveredAtLast(bs) == Len(bs) >= 2 /\ bs[Len(bs)]

\* C1: after categorize_experiences returned, every experience with a
\* non-empty trajectory is in 'success' when it has exactly one trial and that
\* trial is correct, in 'compare' when it has two or more trials and the last
\* is correct, and in 'fail' when none of its trials is correct.
C1_CategoryRules ==
    cat_pc = "returned" =>
        \A idx \in Idxs :
            LET bs == TrialsOf(idx) IN
            Len(bs) > 0 =>
                /\ SingleCorrectTrial(bs) => idx \in Range(count_dict.success)
                /\ RecoveredAtLast(bs) => idx \in Range(count_dict.compare)
                /\ NoTrialCorrect(bs) => idx \in Range(count_dict.fail)

C1_Witness ==
    /\ cat_pc = "returned"
    /\ \E i, j, k \in Idxs :
        /\ SingleCorrectTrial(TrialsOf(i)) /\ i \in Range(count_dict.success)
        /\ RecoveredAtLast(TrialsOf(j)) /\ j \in Range(count_dict.compare)
        /\ Len(TrialsOf(k)) >= 2 /\ NoTrialCorrect(TrialsOf(k))
        /\ k \in Range(count_dict.fail)

\* C2: a non-empty trajectory matching none of the three rules (for example
\* a correct trial followed by an incorrect last trial) makes
\* categorize_experiences raise ValueError instead of returning, and 'fail'
\* only ever holds indices whose trajectory has no correct trial.
MatchesSomeRule(bs) ==
    SingleCorrectTrial(bs) \/ RecoveredAtLast(bs) \/ NoTrialCorrect(bs)

C2_UnmatchedRaisesValueError ==
    /\ cat_pc = "returned" => \A idx \in Idxs : MatchesSomeRule(TrialsOf(idx))
    /\ \A idx \in Range(count_dict.fail) : NoTrialCorrect(TrialsOf(idx))

\* C3: whenever categorize_experiences returns, 'success', 'compare' and
\* 'fail' partition experiences['idxs']: each index is in exactly one list,
\* exactly once, and the lists hold nothing else.
AllCategorized == count_dict.compare \o count_dict.success \o count_dict.fail

C3_CategoriesPartition ==
    cat_pc = "returned" =>
        /\ \A idx \in Idxs : Count(AllCategorized, idx) = 1
        /\ Range(AllCategorized) \subseteq Idxs

C3_Witness ==
    /\ cat_pc = "returned"
    /\ Len(experiences.idxs) = MaxExperiences
    /\ count_dict.compare # <<>>
    /\ count_dict.success # <<>>
    /\ count_dict.fail # <<>>

\* ---------------------------------------------------------------- get_folds
Callers == {1, 2}

Seeds == 0..MaxSeed

\* dict order of the categories: the order categorize_experiences creates them
CategoryOrder == <<"compare", "success", "fail">>

\* The module-level generator `random`: a deterministic generator whose whole
\* state is one number.  random.seed(seed) replaces the state by one that
\* depends on the seed only; every draw advances the state.
RandomSeedKeepsState(seed, state) == state

RandomSeed(seed, state) == (3 * seed + 1) % RngMod

RandomNext(state) == (5 * state + 3) % RngMod

\* random._randbelow(n): one draw, a value in 0..n-1
Randbelow(n, state) == (state \div 2) % n

\* random.sample(indices, len(indices)): selection without replacement from a
\* pool; the chosen slot is refilled with the last unchosen element
RECURSIVE SampleFrom(_, _, _, _)
SampleFrom(pool, i, result, state) ==
    IF i = Len(pool) THEN [indices |-> result, rng |-> state]
    ELSE LET drawn == RandomNext(state)
             j == Randbelow(Len(pool) - i, drawn)
         IN  SampleFrom([pool EXCEPT ![j + 1] = pool[Len(pool) - i]],
                        i + 1, Append(result, pool[j + 1]), drawn)

RandomSample(indices, state) == SampleFrom(indices, 0, <<>>, state)

\* the fold that receives the count-th shuffled index of a category
FoldOfIdx(count, idx, nf) == idx % nf

FoldOf(count, idx, nf) == count % nf

\* for count, idx in enumerate(indices): folds[count % n_folds].append(idx)
RECURSIVE AssignFrom(_, _, _, _)
AssignFrom(folds, indices, count, nf) ==
    IF count >= Len(indices) THEN folds
    ELSE LET idx == indices[count + 1]
         IN  AssignFrom([folds EXCEPT ![FoldOf(count, idx, nf)] = Append(@, idx)],
                        indices, count + 1, nf)

EmptyFolds(nf) == [fold \in 0..(nf - 1) |-> <<>>]

\* the final comprehension: the training set of a fold is range(n_instances)
\* without the fold's held-out indices.  list(set(...)) is modelled as the
\* set: the list order is a function of the set's elements.
TrainingSetsNoDifference(folds, n) ==
    [fold \in DOMAIN folds |-> Range(folds[fold])]

TrainingSets(folds, n) ==
    [fold \in DOMAIN folds |-> (0..(n - 1)) \ Range(folds[fold])]

\* get_folds run from start to end with nothing else touching the generator
RECURSIVE FoldsFrom(_, _, _, _, _)
FoldsFrom(cats, ci, folds, state, nf) ==
    IF ci > Len(CategoryOrder) THEN folds
    ELSE LET s == RandomSample(cats[CategoryOrder[ci]], state)
         IN  FoldsFrom(cats, ci + 1, AssignFrom(folds, s.indices, 0, nf), s.rng, nf)

GetFolds(cats, n, nf, seed) ==
    TrainingSets(FoldsFrom(cats, 1, EmptyFolds(nf), RandomSeed(seed, 0), nf), n)

\* the categories categorize_experiences returns for n experiences: an
\* assignment of 0..n-1 to the three lists, each list in increasing order
RECURSIVE AscendingSeq(_)
AscendingSeq(S) ==
    IF S = {} THEN <<>>
    ELSE LET m == CHOOSE x \in S : \A y \in S : x >= y
         IN  Append(AscendingSeq(S \ {m}), m)

CategoriesOf(assign) ==
    [c \in {"compare", "success", "fail"} |->
        AscendingSeq({i \in DOMAIN assign : assign[i] = c})]

IdleCall == [pc |-> "idle", seed |-> 0, ci |-> 1, folds |-> EmptyFolds(1)]

InitFolds ==
    /\ \E n \in 0..MaxInstances :
         /\ \E assign \in [0..(n - 1) -> {"compare", "success", "fail"}] :
                categories = CategoriesOf(assign)
         /\ n_instances \in {n, n + 1}
    /\ n_folds \in 1..MaxFolds
    /\ rng \in 0..(RngMod - 1)
    /\ call = [c \in Callers |-> IdleCall]
    /\ returned = <<>>
    /\ ncalls = 0
    /\ CatIdle
    /\ RecIdle
    /\ ParseIdle

Active(c) == call[c].pc # "idle"

\* lines 156-158: random.seed(seed) and the empty folds
FoldsSeed(c, seed) ==
    /\ call[c].pc = "idle"
    /\ ncalls < MaxCalls
    /\ ncalls' = ncalls + 1
    /\ rng' = RandomSeed(seed, rng)
    /\ call' = [call EXCEPT ![c] = [pc |-> "sample", seed |-> seed, ci |-> 1,
                                    folds |-> EmptyFolds(n_folds)]]
    /\ UNCHANGED <<categories, n_instances, n_folds, returned, catVars, recVars, parseVars>>

\* lines 161-164: one category is shuffled and dealt to the folds
FoldsSample(c) ==
    /\ call[c].pc = "sample"
    /\ LET s == RandomSample(categories[CategoryOrder[call[c].ci]], rng)
       IN  /\ rng' = s.rng
           /\ call' = [call EXCEPT
                  ![c].folds = AssignFrom(@, s.indices, 0, n_folds),
                  ![c].ci = @ + 1,
                  ![c].pc = IF call[c].ci = Len(CategoryOrder) THEN "return" ELSE "sample"]
    /\ UNCHANGED <<categories, n_instances, n_folds, returned, ncalls, catVars, recVars, parseVars>>

\* lines 167-172: the training sets are computed and returned
FoldsReturn(c) ==
    /\ call[c].pc = "return"
    /\ returned' = Append(returned,
           [seed |-> call[c].seed, folds |-> TrainingSets(call[c].folds, n_instances)])
    /\ call' = [call EXCEPT ![c] = IdleCall]
    /\ UNCHANGED <<categories, n_instances, n_folds, rng, ncalls, catVars, recVars, parseVars>>

\* other code of the process draws from `random` between two calls
RandomOther ==
    /\ \A c \in Callers : ~Active(c)
    /\ rng' = RandomNext(rng)
    /\ UNCHANGED <<categories, n_instances, n_folds, call, returned, ncalls, catVars, recVars, parseVars>>

\* calls made one after the other
SequentialSeed(c, seed) ==
    /\ \A d \in Callers \ {c} : ~Active(d)
    /\ FoldsSeed(c, seed)

\* calls made by concurrent callers, the running ones having different seeds
ConcurrentSeed(c, seed) ==
    /\ \A d \in Callers \ {c} : Active(d) => call[d].seed # seed
    /\ FoldsSeed(c, seed)

NextFolds ==
    \/ \E c \in Callers, seed \in Seeds : SequentialSeed(c, seed)
    \/ \E c \in Callers : FoldsSample(c)
    \/ \E c \in Callers : FoldsReturn(c)
    \/ RandomOther

SpecFolds == InitFolds /\ [][NextFolds]_vars

NextFoldsConcurrent ==
    \/ \E c \in Callers, seed \in Seeds : ConcurrentSeed(c, seed)
    \/ \E c \in Callers : FoldsSample(c)
    \/ \E c \in Callers : FoldsReturn(c)

SpecFoldsConcurrent == InitFolds /\ [][NextFoldsConcurrent]_vars

\* ---------------------------------------------------------- claims: get_folds
CategoryNames == Range(CategoryOrder)

InstanceRange == 0..(n_instances - 1)

AllCategoryIndices ==
    categories.compare \o categories.success \o categories.fail

\* the categories partition [0, n_instances)
CategoriesPartitionRange ==
    /\ Range(AllCategoryIndices) = InstanceRange
    /\ \A i \in InstanceRange : Count(AllCategoryIndices, i) = 1

\* the folds in which index i is held out: absent from the training set
HeldOutFolds(folds, i) == {fold \in DOMAIN folds : i \notin folds[fold]}

\* C4: for categories that partition [0, n_instances) and any n_folds >= 1,
\* the mapping get_folds returns has exactly the keys 0..n_folds-1 and every
\* index of [0, n_instances) is absent from the training set of exactly one
\* fold and present in the training set of every other fold.
C4_HeldOutInExactlyOneFold ==
    CategoriesPartitionRange =>
        \A k \in 1..Len(returned) :
            LET folds == returned[k].folds IN
            /\ DOMAIN folds = 0..(n_folds - 1)
            /\ \A i \in InstanceRange :
                 \E held \in DOMAIN folds :
                    /\ i \notin folds[held]
                    /\ \A other \in DOMAIN folds \ {held} : i \in folds[other]

C4_Witness ==
    /\ CategoriesPartitionRange
    /\ n_instances = MaxInstances
    /\ n_folds >= 2
    /\ Len(returned) >= 1
    /\ \E f \in DOMAIN returned[1].folds : returned[1].folds[f] # InstanceRange

\* C5: two get_folds calls with the same (categories, n_instances, n_folds,
\* seed) return identical fold mappings, whatever the generator's state was
\* before each call and whatever calls happened in between.
C5_SameSeedSameFolds ==
    \A j, k \in 1..Len(returned) :
        returned[j].seed = returned[k].seed => returned[j].folds = returned[k].folds

C5_Witness ==
    /\ Len(returned) >= 3
    /\ returned[1].seed = returned[3].seed
    /\ returned[1].folds = returned[3].folds
    /\ returned[2].seed # returned[1].seed
    /\ returned[2].folds # returned[1].folds

\* C6: when two get_folds calls with different seeds run interleaved, each
\* returns the fold mapping it returns when run alone.
C6_InterleavedCallsAsAlone ==
    \A k \in 1..Len(returned) :
        returned[k].folds = GetFolds(categories, n_instances, n_folds, returned[k].seed)

\* the indices of a category held out in a fold
HeldOutOf(folds, name, fold) ==
    {i \in Range(categories[name]) : i \notin folds[fold]}

\* C7: for a category with k indices and every fold f in 0..n_folds-1, the
\* number of the category's indices held out in fold f is floor(k/n_folds),
\* plus 1 if f < k mod n_folds; folds f >= k receive none, without an error.
C7_RoundRobinCounts ==
    \A r \in 1..Len(returned) :
        \A name \in CategoryNames, fold \in 0..(n_folds - 1) :
            LET k == Len(categories[name]) IN
            Cardinality(HeldOutOf(returned[r].folds, name, fold)) =
                (k \div n_folds) + (IF fold < k % n_folds THEN 1 ELSE 0)

C7_Witness ==
    /\ Len(returned) >= 1
    /\ n_folds = 2
    /\ \E a, b \in CategoryNames :
        /\ Len(categories[a]) = 1
        /\ HeldOutOf(returned[1].folds, a, 1) = {}
        /\ Len(categories[b]) = 2
        /\ Cardinality(HeldOutOf(returned[1].folds, b, 1)) = 1

\* ---------------------------------- retrieve_insight_index, remove_err_operations
\* the texts of insights and payloads: "x", "y" and "xy", so that a text can
\* equal another, contain it at its start or at its end, or be unrelated
Texts == {<<"x">>, <<"y">>, <<"x", "y">>}

\* Python's `s in t` on strings
IsSubstring(s, t) ==
    \E k \in 0..(Len(t) - Len(s)) : SubSeq(t, k + 1, k + Len(s)) = s

\* the test of line 412
TextInInsight(insight, operation_rule_text) ==
    IsSubstring(operation_rule_text, insight.insight)

InsightInText(insight, operation_rule_text) ==
    IsSubstring(insight.insight, operation_rule_text)

\* position (0-based) of the first insight whose text occurs in the text, or -1
RetrieveInsightIndexLast(ins, operation_rule_text) ==
    LET found == {i \in 0..(Len(ins) - 1) : InsightInText(ins[i + 1], operation_rule_text)}
    IN  IF found = {} THEN -1
        ELSE CHOOSE i \in found : \A j \in found : i >= j

RetrieveInsightIndex(ins, operation_rule_text) ==
    LET found == {i \in 0..(Len(ins) - 1) : InsightInText(ins[i + 1], operation_rule_text)}
    IN  IF found = {} THEN -1
        ELSE CHOOSE i \in found : \A j \in found : i <= j

\* what one iteration of the loop appends for the pair (operation, text):
\* operation.split(" ") is the token sequence, `" " in operation` is its
\* having a second token
CorrectOperationWholeString(ins, op) ==
    LET operation == op[1]
        text == op[2]
        operation_type == operation[1]
        index == RetrieveInsightIndex(ins, text)
    IN  IF operation_type = "ADD" /\ RetrieveInsightIndex(ins, text) = -1
            THEN <<op>>
        ELSE IF operation \in {<<"REMOVE">>, <<"AGREE">>} /\ index # -1
            THEN <<op>>
        ELSE IF operation_type = "EDIT" /\ index # -1
            THEN << <<(<<"AGREE", index>>), text>> >>
        ELSE IF /\ operation_type = "EDIT"
                /\ Len(operation) > 1
                /\ operation[2] <= Len(ins)
            THEN <<op>>
        ELSE <<>>

CorrectOperationStrictRange(ins, op) ==
    LET operation == op[1]
        text == op[2]
        operation_type == operation[1]
        index == RetrieveInsightIndex(ins, text)
    IN  IF operation_type = "ADD" /\ RetrieveInsightIndex(ins, text) = -1
            THEN <<op>>
        ELSE IF operation_type \in {"REMOVE", "AGREE"} /\ index # -1
            THEN <<op>>
        ELSE IF operation_type = "EDIT" /\ index # -1
            THEN << <<(<<"AGREE", index>>), text>> >>
        ELSE IF /\ operation_type = "EDIT"
                /\ Len(operation) > 1
                /\ operation[2] < Len(ins)
            THEN <<op>>
        ELSE <<>>

CorrectOperation(ins, op) ==
    LET operation == op[1]
        text == op[2]
        operation_type == operation[1]
        index == RetrieveInsightIndex(ins, text)
    IN  IF operation_type = "ADD" /\ RetrieveInsightIndex(ins, text) = -1
            THEN <<op>>
        ELSE IF operation_type \in {"REMOVE", "AGREE"} /\ index # -1
            THEN <<op>>
        ELSE IF operation_type = "EDIT" /\ index # -1
            THEN << <<(<<"AGREE", index>>), text>> >>
        ELSE IF /\ operation_type = "EDIT"
                /\ Len(operation) > 1
                /\ operation[2] <= Len(ins)
            THEN <<op>>
        ELSE <<>>

\* the loop over operations.copy() from position k on
RECURSIVE RemoveErrFromIncremental(_, _, _, _)
RemoveErrFromIncremental(ins, ops, k, corrected) ==
    IF k > Len(ops) THEN corrected
    ELSE LET added == SelectSeq(corrected, LAMBDA op : op[1][1] = "ADD")
             current == ins \o [j \in 1..Len(added) |-> [insight |-> added[j][2]]]
         IN  RemoveErrFromIncremental(ins, ops, k + 1,
                                      corrected \o CorrectOperation(current, ops[k]))

RECURSIVE RemoveErrFrom(_, _, _, _)
RemoveErrFrom(ins, ops, k, corrected) ==
    IF k > Len(ops) THEN corrected
    ELSE RemoveErrFrom(ins, ops, k + 1, corrected \o CorrectOperation(ins, ops[k]))

RemoveErrOperations(ins, ops) == RemoveErrFrom(ins, ops, 1, <<>>)

\* the operations parse_insights can emit: ADD without an index, the other
\* three with or without one
OperationStrings ==
    {<<"ADD">>, <<"REMOVE">>, <<"EDIT">>, <<"AGREE">>}
        \cup {<<t, i>> : t \in {"REMOVE", "EDIT", "AGREE"}, i \in 0..MaxIdx}

Operations == OperationStrings \X Texts

\* insight lists with pairwise distinct texts
InsightLists ==
    {ins \in SeqsUpTo([insight : Texts], MaxInsights) :
        \A j, k \in 1..Len(ins) : j # k => ins[j] # ins[k]}

\* The insight store applying an emitted operation: ADD appends the text,
\* EDIT i replaces the text at position i, REMOVE deletes the matched insight,
\* AGREE leaves the texts alone.
DeleteAt(st, i) == SubSeq(st, 1, i) \o SubSeq(st, i + 2, Len(st))

ApplyOperation(st, op) ==
    LET operation == op[1]
        text == op[2]
        found == RetrieveInsightIndex(st, text)
    IN  IF operation[1] = "ADD"
            THEN [pc |-> "ok", store |-> Append(st, [insight |-> text])]
        ELSE IF operation[1] = "EDIT"
            THEN IF operation[2] < Len(st)
                 THEN [pc |-> "ok",
                       store |-> [st EXCEPT ![operation[2] + 1].insight = text]]
                 ELSE [pc |-> "IndexError", store |-> st]
        ELSE IF operation[1] = "REMOVE" /\ found # -1
            THEN [pc |-> "ok", store |-> DeleteAt(st, found)]
        ELSE [pc |-> "ok", store |-> st]

InitReconcile ==
    /\ insights \in InsightLists
    /\ operations \in SeqsUpTo(Operations, MaxOps)
    /\ corrected_operations = <<>>
    /\ corrected_again = <<>>
    /\ rec_pc = "start"
    /\ store = insights
    /\ applied = 0
    /\ store_pc = "ok"
    /\ CatIdle
    /\ FoldIdle
    /\ ParseIdle

\* the call remove_err_operations(insights, operations)
RemoveErrOperationsCallInPlace ==
    /\ rec_pc = "start"
    /\ corrected_operations' = RemoveErrOperations(insights, operations)
    /\ operations' = RemoveErrOperations(insights, operations)
    /\ rec_pc' = "returned"
    /\ UNCHANGED <<insights, store, applied, store_pc, corrected_again, catVars, foldVars, parseVars>>

RemoveErrOperationsCall ==
    /\ rec_pc = "start"
    /\ corrected_operations' = RemoveErrOperations(insights, operations)
    /\ rec_pc' = "returned"
    /\ UNCHANGED <<insights, operations, store, applied, store_pc, corrected_again, catVars, foldVars, parseVars>>

\* the store applies the next emitted operation
ApplyNext ==
    /\ rec_pc = "returned"
    /\ store_pc = "ok"
    /\ applied < Len(corrected_operations)
    /\ LET r == ApplyOperation(store, corrected_operations[applied + 1])
       IN  /\ store' = r.store
           /\ store_pc' = r.pc
    /\ applied' = applied + 1
    /\ UNCHANGED <<insights, operations, corrected_operations, corrected_again, rec_pc, catVars, foldVars,
                   parseVars>>

\* a second call, remove_err_operations(insights, <result of the first call>)
RemoveErrOperationsAgain ==
    /\ rec_pc = "returned"
    /\ corrected_again' = RemoveErrOperations(insights, corrected_operations)
    /\ rec_pc' = "again"
    /\ UNCHANGED <<insights, operations, corrected_operations, store, applied, store_pc,
                   catVars, foldVars, parseVars>>

NextReconcile == RemoveErrOperationsCall

SpecReconcile == InitReconcile /\ [][NextReconcile]_vars

\* reconciliation followed by the store applying what was emitted
NextStore ==
    \/ RemoveErrOperationsCall
    \/ ApplyNext

SpecStore == InitReconcile /\ [][NextStore]_vars

\* reconciliation followed by reconciliation of its result
NextReconcileTwice ==
    \/ RemoveErrOperationsCall
    \/ RemoveErrOperationsAgain

SpecReconcileTwice == InitReconcile /\ [][NextReconcileTwice]_vars

\* ---------------------------------------------- claims: remove_err_operations
OperationType(op) == op[1][1]

HasIndex(op) == Len(op[1]) > 1

\* some insight of the list has its text occurring within the text
SomeInsightWithin(text) ==
    \E k \in 1..Len(insights) : IsSubstring(insights[k].insight, text)

\* C8: every operation remove_err_operations emits that carries a position i
\* (EDIT i, AGREE i, REMOVE i) has 0 <= i < number of insights of the list it
\* was validated against.
C8_EmittedPositionsExist ==
    rec_pc = "returned" =>
        \A k \in 1..Len(corrected_operations) :
            HasIndex(corrected_operations[k]) =>
                /\ 0 <= corrected_operations[k][1][2]
                /\ corrected_operations[k][1][2] < Len(insights)

\* C9: starting from an insight list with pairwise distinct texts, applying
\* the emitted operations in order leaves, after every applied operation, a
\* list with no two insights of identical text.
C9_NoDuplicateTexts ==
    \A j, k \in 1..Len(store) : j # k => store[j].insight # store[k].insight

\* C10: an ADD operation is kept, unchanged, if and only if no insight of the
\* list has its text occurring within the operation's payload text.
C10_AddKeptIffNoInsightWithin ==
    rec_pc = "returned" =>
        \A k \in 1..Len(operations) :
            LET op == operations[k] IN
            OperationType(op) = "ADD" =>
                /\ ~SomeInsightWithin(op[2]) =>
                       Count(corrected_operations, op) = Count(operations, op)
                /\ SomeInsightWithin(op[2]) => Count(corrected_operations, op) = 0

C10_Witness ==
    /\ rec_pc = "returned"
    /\ insights # <<>>
    /\ \E j, k \in 1..Len(operations) :
        /\ OperationType(operations[j]) = "ADD"
        /\ ~SomeInsightWithin(operations[j][2])
        /\ operations[j] \in Range(corrected_operations)
        /\ OperationType(operations[k]) = "ADD"
        /\ \E i \in 1..Len(insights) :
            /\ IsSubstring(insights[i].insight, operations[k][2])
            /\ insights[i].insight # operations[k][2]
        /\ operations[k] \notin Range(corrected_operations)

\* what the loop had appended after its first k iterations, and what its
\* k-th iteration appended for operations[k]
EmittedUpTo(k) == Len(RemoveErrOperations(insights, SubSeq(operations, 1, k)))

EmittedFor(k) == SubSeq(corrected_operations, EmittedUpTo(k - 1) + 1, EmittedUpTo(k))

\* the lowest position (0-based) of an insight whose text occurs within the text
LowestWithin(text) ==
    CHOOSE i \in 0..(Len(insights) - 1) :
        /\ IsSubstring(insights[i + 1].insight, text)
        /\ \A j \in 0..(i - 1) : ~IsSubstring(insights[j + 1].insight, text)

\* C11: a REMOVE or AGREE operation, with or without an index, is kept
\* unchanged if and only if some insight of the list has its text occurring
\* within the operation's payload text; otherwise it is dropped and the call
\* still returns.
C11_RemoveAgreeKeptIffInsightWithin ==
    rec_pc = "returned" =>
        \A k \in 1..Len(operations) :
            LET op == operations[k] IN
            OperationType(op) \in {"REMOVE", "AGREE"} =>
                EmittedFor(k) = IF SomeInsightWithin(op[2]) THEN <<op>> ELSE <<>>

C11_Witness ==
    /\ rec_pc = "returned"
    /\ insights # <<>>
    /\ \E j, k \in 1..Len(operations) :
        /\ OperationType(operations[j]) \in {"REMOVE", "AGREE"}
        /\ HasIndex(operations[j])
        /\ SomeInsightWithin(operations[j][2])
        /\ EmittedFor(j) = <<operations[j]>>
        /\ OperationType(operations[k]) \in {"REMOVE", "AGREE"}
        /\ ~SomeInsightWithin(operations[k][2])
        /\ EmittedFor(k) = <<>>

\* C12: an EDIT whose payload textually matches an insight is rewritten to
\* ('AGREE <found-index>', payload), found-index being the lowest position of
\* an insight whose text occurs within the payload, whatever index the
\* operation claims or whether it claims one.
C12_MatchedEditBecomesAgreeFound ==
    rec_pc = "returned" =>
        \A k \in 1..Len(operations) :
            LET op == operations[k] IN
            (OperationType(op) = "EDIT" /\ SomeInsightWithin(op[2])) =>
                EmittedFor(k) = << <<(<<"AGREE", LowestWithin(op[2])>>), op[2]>> >>

C12_Witness ==
    /\ rec_pc = "returned"
    /\ \E j, k \in 1..Len(operations) :
        /\ operations[j][1] = <<"EDIT", 0>>
        /\ SomeInsightWithin(operations[j][2])
        /\ LowestWithin(operations[j][2]) = 1
        /\ EmittedFor(j) = << <<(<<"AGREE", 1>>), operations[j][2]>> >>
        /\ operations[k][1] = <<"EDIT">>
        /\ Cardinality({i \in 1..Len(insights) : IsSubstring(insights[i].insight, operations[k][2])}) = 2
        /\ EmittedFor(k) = << <<(<<"AGREE", 0>>), operations[k][2]>> >>

\* C13: an EDIT whose payload matches no insight is kept as it is if and only
\* if it carries an index i with i <= number of insights; without an index,
\* or with a larger one, it is dropped.
C13_UnmatchedEditKeptIffIndexWithinCount ==
    rec_pc = "returned" =>
        \A k \in 1..Len(operations) :
            LET op == operations[k] IN
            (OperationType(op) = "EDIT" /\ ~SomeInsightWithin(op[2])) =>
                EmittedFor(k) =
                    IF HasIndex(op) /\ op[1][2] <= Len(insights) THEN <<op>> ELSE <<>>

C13_Witness ==
    /\ rec_pc = "returned"
    /\ \E j, k \in 1..Len(operations) :
        /\ OperationType(operations[j]) = "EDIT"
        /\ ~SomeInsightWithin(operations[j][2])
        /\ HasIndex(operations[j])
        /\ operations[j][1][2] = Len(insights)
        /\ EmittedFor(j) = <<operations[j]>>
        /\ OperationType(operations[k]) = "EDIT"
        /\ ~SomeInsightWithin(operations[k][2])
        /\ HasIndex(operations[k])
        /\ operations[k][1][2] > Len(insights)
        /\ EmittedFor(k) = <<>>

\* the operations from position k on, each reconciled on its own against the
\* insights, in input order
RECURSIVE EachAloneFrom(_)
EachAloneFrom(k) ==
    IF k > Len(operations) THEN <<>>
    ELSE RemoveErrOperations(insights, <<operations[k]>>) \o EachAloneFrom(k + 1)

\* C14: the fate of each operation depends only on the insight list and that
\* operation: the result is the concatenation, in input order, of what each
\* operation gives when reconciled on its own, so that reconciling a ++ b is
\* reconciling a, then b, and concatenating.
C14_ReconcileDistributesOverConcat ==
    rec_pc = "returned" => corrected_operations = EachAloneFrom(1)

C14_Witness ==
    /\ rec_pc = "returned"
    /\ Len(operations) = MaxOps
    /\ Len(corrected_operations) = MaxOps
    /\ corrected_operations[1] # corrected_operations[2]
    /\ operations[1][2] = operations[2][2]
    /\ <<corrected_operations[1]>> = RemoveErrOperations(insights, <<operations[1]>>)

\* C20: remove_err_operations leaves its inputs as they were: the insight
\* list and the input operation sequence are unchanged by the call, and every
\* text of the result is the payload text of an input operation.
C20_InputsUntouched ==
    [][(rec_pc = "start" /\ rec_pc' = "returned") =>
          /\ insights' = insights
          /\ operations' = operations
          /\ \A k \in 1..Len(corrected_operations') :
               \E j \in 1..Len(operations) :
                   corrected_operations'[k][2] = operations[j][2]]_vars

C20_Witness ==
    /\ rec_pc = "returned"
    /\ insights # <<>>
    /\ Len(operations) = MaxOps
    /\ Len(corrected_operations) = 1
    /\ corrected_operations[1] \notin Range(operations)

\* C19: reconciling the already reconciled sequence again against the same
\* insight list returns it unchanged.
C19_ReconcileIdempotent ==
    rec_pc = "again" => corrected_again = corrected_operations

C19_Witness ==
    /\ rec_pc = "again"
    /\ insights # <<>>
    /\ Len(corrected_again) = MaxOps
    /\ \E j, k \in 1..Len(operations) :
        /\ OperationType(operations[j]) = "EDIT"
        /\ SomeInsightWithin(operations[j][2])
        /\ corrected_again[j][1][1] = "AGREE"
        /\ OperationType(operations[k]) = "EDIT"
        /\ ~SomeInsightWithin(operations[k][2])
        /\ corrected_again[k] = operations[k]

\* ------------------------------------------------------------ parse_insights
KeywordTokens == {"REMOVE", "EDIT", "ADD", "AGREE"}

DigitChars == {"1"}

Newline == "\n"

\* the characters of [a-zA-Z\s\d]
LabelClass == KeywordTokens \cup DigitChars \cup {"w", " ", Newline}

\* what `.` matches: everything but the newline
DotClass == (LabelClass \cup {":", "."}) \ {Newline}

At(t, p) == IF p >= 1 /\ p <= Len(t) THEN t[p] ELSE "<end>"

\* the first position from p on whose lexeme is outside S (greedy run of S)
RECURSIVE RunEnd(_, _, _)
RunEnd(t, p, S) == IF At(t, p) \in S THEN RunEnd(t, p + 1, S) ELSE p

ColonSpaceAt(t, p) == At(t, p) = ":" /\ At(t, p + 1) = " "

NoHead == [ok |-> FALSE, operation |-> <<>>, body |-> 0]

\* group 1 and the ": " after it, tried at position p:
\* ((?:REMOVE|EDIT|ADD|AGREE)(?: \d+|)): -- the index alternative first, the
\* empty alternative when it fails.  The operation is the keyword and, when an
\* index was written, its digit string.
HeadAtAnyWord(t, p) ==
    LET q == RunEnd(t, p + 2, DigitChars \cup {"w"}) IN
    IF At(t, p) \notin KeywordTokens THEN NoHead
    ELSE IF At(t, p + 1) = " " /\ q > p + 2 /\ ColonSpaceAt(t, q)
        THEN [ok |-> TRUE, operation |-> <<t[p], SubSeq(t, p + 2, q - 1)>>, body |-> q + 2]
    ELSE IF ColonSpaceAt(t, p + 1)
        THEN [ok |-> TRUE, operation |-> <<t[p]>>, body |-> p + 3]
    ELSE NoHead

HeadAt(t, p) ==
    LET q == RunEnd(t, p + 2, DigitChars) IN
    IF At(t, p) \notin KeywordTokens THEN NoHead
    ELSE IF At(t, p + 1) = " " /\ q > p + 2 /\ ColonSpaceAt(t, q)
        THEN [ok |-> TRUE, operation |-> <<t[p], SubSeq(t, p + 2, q - 1)>>, body |-> q + 2]
    ELSE IF ColonSpaceAt(t, p + 1)
        THEN [ok |-> TRUE, operation |-> <<t[p]>>, body |-> p + 3]
    ELSE NoHead

\* (?:[a-zA-Z\s\d]+: |): the optional label is the greedy run of the class
\* when ": " follows it; group 2 starts after it
DescriptionStart(t, b) ==
    LET e == RunEnd(t, b, LabelClass)
    IN  IF e > b /\ ColonSpaceAt(t, e) THEN e + 2 ELSE b

\* re.findall(pattern, llm_text): the leftmost match from p on, then the
\* search resumes where the match ended; (.*) runs to the end of its line
RECURSIVE FindAllFrom(_, _, _)
FindAllFrom(t, p, matches) ==
    IF p > Len(t) THEN matches
    ELSE LET h == HeadAt(t, p) IN
         IF h.ok
         THEN LET d == DescriptionStart(t, h.body)
                  e == RunEnd(t, d, DotClass)
              IN  FindAllFrom(t, e, Append(matches, <<h.operation, SubSeq(t, d, e - 1)>>))
         ELSE FindAllFrom(t, p + 1, matches)

FindAll(t) == FindAllFrom(t, 1, <<>>)

\* str.strip() of a captured description (it holds no newline)
RECURSIVE Strip(_)
Strip(text) ==
    IF text = <<>> THEN text
    ELSE IF Head(text) = " " THEN Strip(Tail(text))
    ELSE IF text[Len(text)] = " " THEN Strip(SubSeq(text, 1, Len(text) - 1))
    ELSE text

banned_words == {"ADD", "AGREE", "EDIT"}

\* the test of lines 382-386 on the stripped text
AcceptedNoPeriodTest(text) ==
    /\ text # <<>>
    /\ ~\E k \in 1..Len(text) : text[k] \in banned_words

Accepted(text) ==
    /\ text # <<>>
    /\ ~\E k \in 1..Len(text) : text[k] \in banned_words
    /\ text[Len(text)] = "."

\* the pair appended for an accepted match, lines 390-393
EmittedPairKeepsIndex(operation, text) == <<operation, text>>

EmittedPair(operation, text) ==
    IF operation[1] = "ADD" THEN <<(<<"ADD">>), text>> ELSE <<operation, text>>

\* the loop over the matches from position k on
RECURSIVE ParseFrom(_, _, _)
ParseFromPrepend(matches, k, r) ==
    IF k > Len(matches) THEN r
    ELSE LET operation == matches[k][1]
             text == Strip(matches[k][2])
         IN  ParseFrom(matches, k + 1,
                       IF Accepted(text) THEN <<EmittedPair(operation, text)>> \o r ELSE r)

ParseFrom(matches, k, r) ==
    IF k > Len(matches) THEN r
    ELSE LET operation == matches[k][1]
             text == Strip(matches[k][2])
         IN  ParseFrom(matches, k + 1,
                       IF Accepted(text) THEN Append(r, EmittedPair(operation, text)) ELSE r)

ParseInsightsOf(t) == ParseFrom(FindAll(t), 1, <<>>)

\* the critique texts: lines made of an optional operation head and a body
LineHeads ==
    {<<>>, <<"EDIT", " ", "w", ":", " ">>}
        \cup {<<kw, ":", " ">> : kw \in {"ADD", "EDIT", "AGREE"}}
        \cup {<<kw, " ", "1", ":", " ">> : kw \in {"ADD", "EDIT", "REMOVE"}}

LineBodies ==
    {<<"w", ".">>,
     <<"w", ":", " ", "w", ".">>,
     <<"w">>,
     <<>>,
     <<"w", " ", "EDIT", ".">>,
     <<" ", "w", ".", " ">>}

Lines == {h \o b : h \in LineHeads, b \in LineBodies}

RECURSIVE JoinLines(_)
JoinLines(ls) ==
    IF ls = <<>> THEN <<>>
    ELSE IF Len(ls) = 1 THEN ls[1]
    ELSE ls[1] \o <<Newline>> \o JoinLines(Tail(ls))

InitParse ==
    /\ \E ls \in SeqsUpTo(Lines, MaxLines) : llm_text = JoinLines(ls)
    /\ res = <<>>
    /\ parse_pc = "start"
    /\ CatIdle
    /\ FoldIdle
    /\ RecIdle

\* the call parse_insights(llm_text)
ParseInsights ==
    /\ parse_pc = "start"
    /\ res' = ParseInsightsOf(llm_text)
    /\ parse_pc' = "returned"
    /\ UNCHANGED <<llm_text, catVars, foldVars, recVars>>

NextParse == ParseInsights

SpecParse == InitParse /\ [][NextParse]_vars

\* ------------------------------------- parse_insights then remove_err_operations
\* int() of the second space-separated token of an operation string
IsNumeric(token) ==
    /\ token # <<>>
    /\ \A k \in 1..Len(token) : token[k] \in DigitChars

RECURSIVE IntOf(_)
IntOf(token) ==
    IF token = <<>> THEN 0
    ELSE 10 * IntOf(SubSeq(token, 1, Len(token) - 1))
             + (IF token[Len(token)] = "1" THEN 1 ELSE 0)

\* line 434 raises ValueError when the token after the space is no integer
InsightIdxRaises(operation) == Len(operation) > 1 /\ ~IsNumeric(operation[2])

\* the operation as lines 433-434 read it: keyword and integer index
SplitOperation(operation) ==
    IF Len(operation) > 1 THEN <<operation[1], IntOf(operation[2])>> ELSE operation

SplitOperations(ops) == [k \in 1..Len(ops) |-> <<SplitOperation(ops[k][1]), ops[k][2]>>]

\* existing insights for the parsed operations to meet: none, the one the
\* bodies state, and a word within it ahead of it
ParsedInsightLists ==
    {<<>>,
     <<[insight |-> <<"w", ".">>]>>,
     <<[insight |-> <<"w">>], [insight |-> <<"w", ".">>]>>}

InitPipeline ==
    /\ insights \in ParsedInsightLists
    /\ \E ls \in SeqsUpTo(Lines, MaxLines) : llm_text = JoinLines(ls)
    /\ res = <<>>
    /\ parse_pc = "start"
    /\ operations = <<>>
    /\ corrected_operations = <<>>
    /\ corrected_again = <<>>
    /\ rec_pc = "start"
    /\ store = <<>>
    /\ applied = 0
    /\ store_pc = "ok"
    /\ CatIdle
    /\ FoldIdle

\* operations = remove_err_operations(insights, operations) on the parsed
\* list (lines 494-497): it returns the corrected list, or line 434 raises
RemoveErrOperationsOnParsed ==
    /\ parse_pc = "returned"
    /\ rec_pc = "start"
    /\ IF \E k \in 1..Len(res) : InsightIdxRaises(res[k][1])
       THEN /\ rec_pc' = "ValueError"
            /\ UNCHANGED corrected_operations
       ELSE /\ corrected_operations' = RemoveErrOperations(insights, SplitOperations(res))
            /\ rec_pc' = "returned"
    /\ UNCHANGED <<insights, operations, corrected_again, store, applied, store_pc,
                   parseVars, catVars, foldVars>>

NextPipeline == ParseInsights \/ RemoveErrOperationsOnParsed

SpecPipeline == InitPipeline /\ [][NextPipeline]_vars

\* the matches of the pattern whose description passes the three filters
PassingMatches ==
    SelectSeq(FindAll(llm_text),
              LAMBDA m : LET d == Strip(m[2]) IN
                  /\ d # <<>>
                  /\ d[Len(d)] = "."
                  /\ \A k \in 1..Len(d) : d[k] \notin {"ADD", "AGREE", "EDIT"})

\* C15: every pair parse_insights emits has a description that is trimmed,
\* non-empty, ends with a period and holds none of ADD, AGREE, EDIT; a match
\* whose description fails a filter yields no pair, so the pairs are as many
\* as the passing matches, and the call returns.
C15_EmittedPairsPassedAllFilters ==
    parse_pc = "returned" =>
        /\ \A k \in 1..Len(res) :
               LET text == res[k][2] IN
               /\ text # <<>>
               /\ text[1] # " " /\ text[Len(text)] = "."
               /\ \A j \in 1..Len(text) : text[j] \notin {"ADD", "AGREE", "EDIT"}
        /\ Len(res) = Len(PassingMatches)

\* a returned call with an emitted pair and a match rejected only for its
\* missing period
C15_Witness ==
    /\ parse_pc = "returned"
    /\ res # <<>>
    /\ \E k \in 1..Len(FindAll(llm_text)) :
           LET d == Strip(FindAll(llm_text)[k][2]) IN
           /\ d # <<>>
           /\ d[Len(d)] # "."
           /\ \A j \in 1..Len(d) : d[j] \notin {"ADD", "AGREE", "EDIT"}

\* C16: an accepted ADD match is emitted with kind exactly ADD, without the
\* index written after it; an accepted REMOVE, EDIT or AGREE match is emitted
\* with the keyword and index exactly as the text wrote them.
C16_KindNormalized ==
    parse_pc = "returned" =>
        /\ Len(res) = Len(PassingMatches)
        /\ \A k \in 1..Len(res) :
               IF PassingMatches[k][1][1] = "ADD"
               THEN res[k][1] = <<"ADD">>
               ELSE res[k][1] = PassingMatches[k][1]

\* an accepted "ADD 1" and an accepted indexed operation of another kind
C16_Witness ==
    /\ parse_pc = "returned"
    /\ \E k \in 1..Len(PassingMatches) :
           PassingMatches[k][1] = <<"ADD", <<"1">>>> /\ res[k][1] = <<"ADD">>
    /\ \E k \in 1..Len(PassingMatches) :
           PassingMatches[k][1][1] # "ADD" /\ Len(res[k][1]) = 2

\* C17: the pairs come out in the order of their matches in the text, one
\* pair for each accepted match.
C17_TextOrderPreserved ==
    parse_pc = "returned" =>
        /\ Len(res) = Len(PassingMatches)
        /\ \A k \in 1..Len(res) :
               /\ res[k][1][1] = PassingMatches[k][1][1]
               /\ res[k][2] = Strip(PassingMatches[k][2])

\* two accepted matches that differ, so their order shows
C17_Witness ==
    /\ parse_pc = "returned"
    /\ Len(res) = 2
    /\ res[1] # res[2]

\* C18: remove_err_operations on the output of parse_insights never raises,
\* whatever the critique text and the insights: it returns a list, and what
\* cannot be used is left out of it.
C18_PipelineNeverRaises ==
    /\ rec_pc # "ValueError"
    /\ rec_pc = "returned" =>
           /\ parse_pc = "returned"
           /\ Len(corrected_operations) <= Len(res)

\* the pipeline returned on a text with an indexed operation, keeping one
\* operation and dropping another
C18_Witness ==
    /\ rec_pc = "returned"
    /\ \E k \in 1..Len(res) : Len(res[k][1]) = 2
    /\ corrected_operations # <<>>
    /\ Len(corrected_operations) < Len(res)

====
